---- MODULE Spec2Model ----
(***************************************************************************)
(* Koala Kombo: a block-placement puzzle on a GRID_SIZE x GRID_SIZE board. *)
(*                                                                         *)
(* The repository holds two presentation layers over the game state:      *)
(*   - src/src/koala_kombo.rs: GameState plus a click-driven GamePlugin    *)
(*     (select a piece button, then click a board cell);                   *)
(*   - src/src/plugin.rs: a drag-driven GamePlugin over the KoalaKombo     *)
(*     session type (mouse down on a piece, hover, mouse up).              *)
(* A run uses one of them; the variable `ui` records which.                *)
(***************************************************************************)
EXTENDS Integers, Sequences, FiniteSets, TLC

\* ------------------------------------------------------------------------
\* Constants of the program

GRID_SIZE == 8

\* Option::None for Option<usize> fields (selected_piece)
None == -1

\* a table whose L shape repeats an offset and whose T shape is not moved
\* to the origin
PIECES_unnormalized ==
  << << <<0, 0>> >>,
     << <<0, 0>>, <<1, 0>> >>,
     << <<0, 0>>, <<0, 1>> >>,
     << <<0, 0>>, <<1, 0>>, <<2, 0>> >>,
     << <<0, 0>>, <<0, 1>>, <<0, 2>> >>,
     << <<0, 0>>, <<1, 0>>, <<0, 1>>, <<1, 1>> >>,
     << <<0, 0>>, <<1, 0>>, <<1, 0>> >>,
     << <<1, 1>>, <<2, 1>>, <<3, 1>>, <<2, 2>> >>,
     << <<0, 0>>, <<1, 0>>, <<2, 0>>, <<0, 1>>, <<0, 2>> >> >>

\* The pieces that can spawn; PIECES[i + 1] is the Rust PIECES[i].
\* Each block is <<dx, dy>>.
PIECES ==
  << << <<0, 0>> >>,
     << <<0, 0>>, <<1, 0>> >>,
     << <<0, 0>>, <<0, 1>> >>,
     << <<0, 0>>, <<1, 0>>, <<2, 0>> >>,
     << <<0, 0>>, <<0, 1>>, <<0, 2>> >>,
     << <<0, 0>>, <<1, 0>>, <<0, 1>>, <<1, 1>> >>,
     << <<0, 0>>, <<1, 0>>, <<1, 1>> >>,
     << <<0, 0>>, <<1, 0>>, <<2, 0>>, <<1, 1>> >>,
     << <<0, 0>>, <<1, 0>>, <<2, 0>>, <<0, 1>>, <<0, 2>> >> >>

\* PIECES.len() and the valid piece indices
PiecesLen == Len(PIECES)
PieceIds == 0 .. (PiecesLen - 1)

\* Shape { blocks: PIECES[i] }
Shape(i) == PIECES[i + 1]

\* Board indices: Vec<Cell> of length GRID_SIZE * GRID_SIZE
Cells == 0 .. (GRID_SIZE * GRID_SIZE - 1)
Coords == 0 .. (GRID_SIZE - 1)

\* ------------------------------------------------------------------------
\* Bounds of the model

\* accepted placements a run is followed for
MaxCommits == 3

\* the same for the runs that fill row 0 with single blocks
RowCommits == 8

\* the same for the runs that pack big L pieces
PackCommits == 4

\* the same for the deep runs of the click-driven plugin, enough to fill
\* row 0 and column 0 with one last piece
DeepCommits == 5

\* the same for the shallow runs, on whose boards can_place is compared
\* with the footprint for every shape and every anchor
ShallowCommits == 2

\* ------------------------------------------------------------------------
\* GameState (koala_kombo.rs): pure helpers

\* an idx that multiplies the column instead of the row
idx_column_major(x, y) == x * GRID_SIZE + y

idx(x, y) == y * GRID_SIZE + x

in_bounds(x, y) == x >= 0 /\ y >= 0 /\ x < GRID_SIZE /\ y < GRID_SIZE

\* can_place: the for loop over shape.blocks from block k on, with its two
\* early returns; the board is read only after the bounds test passed.
RECURSIVE can_place_loop(_, _, _, _, _)
can_place_loop(b, blocks, ax, ay, k) ==
  IF k > Len(blocks) THEN TRUE
  ELSE LET x == ax + blocks[k][1]
           y == ay + blocks[k][2]
       IN IF ~in_bounds(x, y) THEN FALSE
          ELSE IF b[idx(x, y)] THEN FALSE
          ELSE can_place_loop(b, blocks, ax, ay, k + 1)

\* a can_place that tests the bounds only and never reads the board
can_place_bounds_only(b, blocks, ax, ay) ==
  \A k \in 1 .. Len(blocks) : in_bounds(ax + blocks[k][1], ay + blocks[k][2])

can_place(b, blocks, ax, ay) == can_place_loop(b, blocks, ax, ay, 1)

\* place: the for loop over shape.blocks from block k on
RECURSIVE place_loop(_, _, _, _, _)
place_loop(b, blocks, ax, ay, k) ==
  IF k > Len(blocks) THEN b
  ELSE LET x == ax + blocks[k][1]
           y == ay + blocks[k][2]
       IN place_loop([b EXCEPT ![idx(x, y)] = TRUE], blocks, ax, ay, k + 1)

\* the coordinates at which can_place indexes the board: a block is looked
\* up only after in_bounds accepted it, and the loop ends at the first
\* block that is out of bounds or filled (an index beyond the Vec panics)
RECURSIVE can_place_reads(_, _, _, _, _)
can_place_reads(b, blocks, ax, ay, k) ==
  IF k > Len(blocks) THEN {}
  ELSE LET x == ax + blocks[k][1]
           y == ay + blocks[k][2]
       IN IF ~in_bounds(x, y) THEN {}
          ELSE IF idx(x, y) \notin Cells THEN { << x, y >> }
          ELSE IF b[idx(x, y)] THEN { << x, y >> }
          ELSE { << x, y >> } \cup can_place_reads(b, blocks, ax, ay, k + 1)

\* the coordinates place casts to usize and writes, one per block
place_writes(blocks, ax, ay) ==
  { << ax + blocks[k][1], ay + blocks[k][2] >> : k \in 1 .. Len(blocks) }

\* the coordinates the two passes of clear_complete_lines index
clear_addresses ==
  { << x, y >> : x \in 0 .. (GRID_SIZE - 1), y \in 0 .. (GRID_SIZE - 1) }

\* a place that adds each block's dy to the column and dx to the row
place_transposed(b, blocks, ax, ay) ==
  [i \in Cells |->
     IF \E k \in 1 .. Len(blocks) : i = idx(ax + blocks[k][2], ay + blocks[k][1])
     THEN TRUE ELSE b[i]]

\* a place whose loop stops one block early
place_all_but_last(b, blocks, ax, ay) ==
  place_loop(b, SubSeq(blocks, 1, Len(blocks) - 1), ax, ay, 1)

place(b, blocks, ax, ay) == place_loop(b, blocks, ax, ay, 1)

\* a row clear that takes the row number for a column number
clear_row_as_column(b, y) == [i \in Cells |-> IF i % GRID_SIZE = y THEN FALSE ELSE b[i]]

\* a row test whose scan stops one cell before the end of the row
row_complete_short_scan(b, y) == \A x \in 0 .. (GRID_SIZE - 2) : b[y * GRID_SIZE + x]

\* the row test and the row clear of clear_complete_lines
row_complete(b, y) == \A x \in Coords : b[y * GRID_SIZE + x]
clear_row(b, y) == [i \in Cells |-> IF i \div GRID_SIZE = y THEN FALSE ELSE b[i]]

\* the column test and the column clear of clear_complete_lines
col_complete(b, x) == \A y \in Coords : b[idx(x, y)]
clear_col(b, x) == [i \in Cells |-> IF i % GRID_SIZE = x THEN FALSE ELSE b[i]]

\* a row pass that scores 1 for a cleared row
RECURSIVE rows_loop_unit_score(_, _)
rows_loop_unit_score(st, y) ==
  IF y >= GRID_SIZE THEN st
  ELSE IF row_complete(st.board, y)
       THEN rows_loop_unit_score([board |-> clear_row(st.board, y), score |-> st.score + 1], y + 1)
       ELSE rows_loop_unit_score(st, y + 1)

\* "Check rows": for y in 0..GRID_SIZE, on the board as mutated so far.
\* st = [board, score]
RECURSIVE rows_loop(_, _)
rows_loop(st, y) ==
  IF y >= GRID_SIZE THEN st
  ELSE IF row_complete(st.board, y)
       THEN rows_loop([board |-> clear_row(st.board, y), score |-> st.score + GRID_SIZE], y + 1)
       ELSE rows_loop(st, y + 1)

\* "Check columns": for x in 0..GRID_SIZE, on the board the row pass left
RECURSIVE cols_loop(_, _)
cols_loop(st, x) ==
  IF x >= GRID_SIZE THEN st
  ELSE IF col_complete(st.board, x)
       THEN cols_loop([board |-> clear_col(st.board, x), score |-> st.score + GRID_SIZE], x + 1)
       ELSE cols_loop(st, x + 1)

\* a clear_complete_lines without the column pass
clear_complete_lines_rows_only(b) == rows_loop([board |-> b, score |-> 0], 0)

\* clear_complete_lines: returns the new board and the score it returns
clear_complete_lines(b) == cols_loop(rows_loop([board |-> b, score |-> 0], 0), 0)

\* generate_new_pieces: idx1, idx2, idx3 are the three hash values modulo
\* PIECES.len(); the hasher keys and the clock are not state of the game,
\* so every index in PieceIds can come out for every slot.
generate_new_pieces(idx1, idx2, idx3) == << Shape(idx1), Shape(idx2), Shape(idx3) >>

\* the queues generate_new_pieces can leave: each index is a hash value
\* modulo PIECES.len(), computed from its own input
generated_queues == { generate_new_pieces(a, b, c) : a, b, c \in PieceIds }

\* the queues GameState::new can leave: the three literals it names
new_queues == { << Shape(0), Shape(1), Shape(2) >> }

\* ------------------------------------------------------------------------
\* KoalaKombo (the session type plugin.rs drives; its source is not in the
\* tree, so it follows the specification's sections 4.2 to 4.6)

\* Coord: [column, row]
Coord_new(column, row) == [column |-> column, row |-> row]
from_index(i) == Coord_new(i % GRID_SIZE, i \div GRID_SIZE)
to_index(c) == c.row * GRID_SIZE + c.column

\* Option<Coord>::None (hover_cell)
NoCoord == Coord_new(None, None)

cell_filled(b, c) == b[to_index(c)]

\* PieceSlot: [shape, used]
Piece(blocks) == [shape |-> blocks, used |-> FALSE]
NewPieces(d) == << Piece(Shape(d[1])), Piece(Shape(d[2])), Piece(Shape(d[3])) >>

\* Option<Vec<Coord>>: [some, cells]
NoCells == [some |-> FALSE, cells |-> << >>]
SomeCells(cs) == [some |-> TRUE, cells |-> cs]

\* 4.3 canPlace for the shape of slot `slot` at `anchor`
translated(blocks, anchor) ==
  [k \in 1 .. Len(blocks) |-> Coord_new(anchor.column + blocks[k][1], anchor.row + blocks[k][2])]

kk_can_place(b, pcs, slot, anchor) ==
  LET cs == translated(pcs[slot + 1].shape, anchor)
  IN IF \A k \in 1 .. Len(cs) :
          /\ cs[k].column \in Coords
          /\ cs[k].row \in Coords
          /\ ~cell_filled(b, cs[k])
     THEN SomeCells(cs)
     ELSE NoCells

\* 4.4 step 3: mark every coordinate of the returned set filled
occupy_all(b, cs) ==
  [i \in Cells |-> IF \E k \in 1 .. Len(cs) : to_index(cs[k]) = i THEN TRUE ELSE b[i]]

\* 4.5: all lines are judged on the one snapshot, then cleared
kk_clear_lines(b) ==
  LET rows == { y \in Coords : \A x \in Coords : b[to_index(Coord_new(x, y))] }
      cols == { x \in Coords : \A y \in Coords : b[to_index(Coord_new(x, y))] }
  IN [board |-> [i \in Cells |->
                   IF from_index(i).row \in rows \/ from_index(i).column \in cols
                   THEN FALSE ELSE b[i]],
      score |-> GRID_SIZE * (Cardinality(rows) + Cardinality(cols))]

\* ------------------------------------------------------------------------
\* The board widgets of either GamePlugin

\* build_board / build_ui: the inner loop over the columns of one row pushes
\* a widget placed at .on_row(row).on_column(column), recorded as <<column, row>>
RECURSIVE build_board_row(_, _)
build_board_row(row, column) ==
  IF column >= GRID_SIZE THEN << >>
  ELSE << << column, row >> >> \o build_board_row(row, column + 1)

\* the outer loop over the rows
RECURSIVE build_board_rows(_)
build_board_rows(row) ==
  IF row >= GRID_SIZE THEN << >>
  ELSE build_board_row(row, 0) \o build_board_rows(row + 1)

\* self.board_cells: element i + 1 is the grid position of the widget with
\* index i
board_cells == build_board_rows(0)

\* ------------------------------------------------------------------------
\* Inputs of the model

\* The board cells the modelled pointer events are aimed at (widget
\* indices into board_cells): the anchors from which the catalog's bars and
\* the big L tile row 0 and column 0.
TargetCells == { idx(0, 0), idx(3, 0), idx(6, 0), idx(0, 3), idx(0, 6) }

\* The index triples <<idx1, idx2, idx3>> the modelled random source yields.
Draws == { <<3, 3, 1>>, <<4, 8, 6>> }

\* The cells of row 0, and the one draw of three single blocks, for the runs
\* that fill row 0 cell by cell
RowCells == { idx(x, 0) : x \in Coords }
SingleDraws == { <<0, 0, 0>> }

\* Anchors for a single block and three big L pieces that leave no room for
\* another big L, and the one draw of three big L pieces
PackCells == { idx(5, 5), idx(2, 3), idx(2, 0), idx(5, 2) }
BigLDraws == { <<8, 8, 8>> }

\* ------------------------------------------------------------------------
\* State

VARIABLES
  ui,                \* which GamePlugin runs: "click" (koala_kombo.rs) or "drag" (plugin.rs)
  board,             \* the session's board: [Cells -> BOOLEAN] (GameState.board / KoalaKombo's grid)
  score,             \* the session's score
  available_pieces,  \* click: GameState.available_pieces, 3 shapes (block lists)
  selected_piece,    \* click: GameState.selected_piece, None or 0..2
  pieces,            \* drag: KoalaKombo.pieces, 3 slots [shape, used]
  dragging,          \* drag: GamePlugin.dragging, [shape, hover_cell]; shape = None when no drag
  snapshot,          \* history: the board right after the last placement step, before line clearing
  last,              \* history: the handler that ran last, [op, placed, slot, cell]
  commits,           \* history: accepted placements so far
  cap,               \* the number of accepted placements the run is followed for
  rng                \* the index triples the random source yields in the run

vars == << ui, board, score, available_pieces, selected_piece, pieces, dragging,
           snapshot, last, commits, cap, rng >>

EmptyBoard == [i \in Cells |-> FALSE]

\* Option<DragState>: None, and Some(DragState { shape, hover_cell })
NoDrag == [shape |-> None, hover_cell |-> NoCoord]
DragState(shape, hover_cell) == [shape |-> shape, hover_cell |-> hover_cell]

\* what the last handler did: its name, for an accepted placement the slot
\* placed and the anchor cell, for a hover event the cell of the event
Handled(op) == [op |-> op, placed |-> FALSE, slot |-> None, cell |-> None]
HandledAt(op, cell) == [op |-> op, placed |-> FALSE, slot |-> None, cell |-> cell]
Placed(op, slot, cell) == [op |-> op, placed |-> TRUE, slot |-> slot, cell |-> cell]

\* a GameState::new whose board is one cell short
GameStateNewShortBoard ==
  /\ board = [i \in 0 .. (GRID_SIZE * GRID_SIZE - 2) |-> FALSE]
  /\ available_pieces = << Shape(0), Shape(1), Shape(2) >>
  /\ selected_piece = None
  /\ score = 0

\* GameState::new
GameStateNew ==
  /\ board = EmptyBoard
  /\ available_pieces = << Shape(0), Shape(1), Shape(2) >>
  /\ selected_piece = None
  /\ score = 0

\* KoalaKombo::new, called by build_ui: empty board, 3 random unused pieces, score 0
KoalaKomboNew ==
  /\ board = EmptyBoard
  /\ \E d \in rng : pieces = NewPieces(d)
  /\ score = 0

History0 ==
  /\ snapshot = EmptyBoard
  /\ last = Handled("init")
  /\ commits = 0

\* koala_kombo.rs: GamePlugin::build_ui creates the state, nothing is dragged
InitClick ==
  /\ ui = "click"
  /\ GameStateNew
  /\ pieces = << >>
  /\ dragging = NoDrag
  /\ History0

\* plugin.rs: GamePlugin::default() then init -> build_ui
InitDrag ==
  /\ ui = "drag"
  /\ KoalaKomboNew
  /\ available_pieces = << >>
  /\ selected_piece = None
  /\ dragging = NoDrag
  /\ History0

Init == InitClick \/ InitDrag

\* ------------------------------------------------------------------------
\* koala_kombo.rs GamePlugin::on_ui_message

\* a piece button handler that also generates new pieces
ClickPieceRedraw(piece_idx) ==
  /\ ui = "click"
  /\ selected_piece' = piece_idx
  /\ \E d \in rng : available_pieces' = generate_new_pieces(d[1], d[2], d[3])
  /\ last' = Handled("ClickPiece")
  /\ UNCHANGED << ui, board, score, pieces, dragging, snapshot, commits, cap, rng >>

\* ButtonMessage::Click on piece button piece_idx
ClickPiece(piece_idx) ==
  /\ ui = "click"
  /\ selected_piece' = piece_idx
  /\ last' = Handled("ClickPiece")
  /\ UNCHANGED << ui, board, score, available_pieces, pieces, dragging, snapshot, commits, cap, rng >>

\* the accepted branch of the board click: place, clear lines, add the
\* score, drop the selection, generate new pieces
ClickPlace(sel, cell_idx, shape, x, y) ==
  LET placed == place(board, shape, x, y)
      cleared == clear_complete_lines(placed)
  IN /\ commits < cap
     /\ board' = cleared.board
     /\ score' = score + cleared.score
     /\ selected_piece' = None
     /\ \E d \in rng : available_pieces' = generate_new_pieces(d[1], d[2], d[3])
     /\ snapshot' = placed
     /\ last' = Placed("ClickCell", sel, cell_idx)
     /\ commits' = commits + 1
     /\ UNCHANGED << ui, pieces, dragging, cap, rng >>

\* a board click that changes nothing
ClickNoop ==
  /\ last' = Handled("ClickCell")
  /\ UNCHANGED << ui, board, score, available_pieces, selected_piece, pieces, dragging, snapshot, commits, cap, rng >>

\* a board click handler that places without asking can_place
ClickCellUnchecked(cell_idx) ==
  /\ ui = "click"
  /\ IF selected_piece = None
     THEN ClickNoop
     ELSE ClickPlace(selected_piece, cell_idx, available_pieces[selected_piece + 1],
                     cell_idx % GRID_SIZE, cell_idx \div GRID_SIZE)

\* WidgetMessage::MouseDown (left) on board cell widget cell_idx
ClickCell(cell_idx) ==
  /\ ui = "click"
  /\ LET sel == selected_piece
         x == cell_idx % GRID_SIZE
         y == cell_idx \div GRID_SIZE
     IN IF sel = None
        THEN ClickNoop
        ELSE LET shape == available_pieces[sel + 1]
             IN IF can_place(board, shape, x, y)
                THEN ClickPlace(sel, cell_idx, shape, x, y)
                ELSE ClickNoop

NextClick ==
  \/ \E i \in 0 .. 2 : ClickPiece(i)
  \/ \E c \in TargetCells : ClickCell(c)

\* a place_shape that marks the slot used and never refills the queue
place_shape_no_refill(b, pcs, sc, slot, anchor, d) ==
  IF slot \notin 0 .. 2 \/ pcs[slot + 1].used \/ ~kk_can_place(b, pcs, slot, anchor).some
  THEN [ok |-> FALSE, board |-> b, snapshot |-> b, pieces |-> pcs, score |-> sc]
  ELSE LET filled == occupy_all(b, kk_can_place(b, pcs, slot, anchor).cells)
       IN [ok |-> TRUE,
           board |-> kk_clear_lines(filled).board,
           snapshot |-> filled,
           pieces |-> [pcs EXCEPT ![slot + 1].used = TRUE],
           score |-> sc + kk_clear_lines(filled).score]

\* ------------------------------------------------------------------------
\* KoalaKombo::place_shape (specification 4.4 commitPlacement), as a
\* function of the session: [ok, board, snapshot, pieces, score].
\* `d` is the refill's draw, used only when all 3 slots are used.
place_shape(b, pcs, sc, slot, anchor, d) ==
  LET rejected == [ok |-> FALSE, board |-> b, snapshot |-> b, pieces |-> pcs, score |-> sc]
  IN IF slot \notin 0 .. 2 \/ pcs[slot + 1].used THEN rejected
     ELSE LET fit == kk_can_place(b, pcs, slot, anchor)
          IN IF ~fit.some THEN rejected
             ELSE LET filled == occupy_all(b, fit.cells)
                      marked == [pcs EXCEPT ![slot + 1].used = TRUE]
                      cleared == kk_clear_lines(filled)
                  IN [ok |-> TRUE,
                      board |-> cleared.board,
                      snapshot |-> filled,
                      pieces |-> IF \A i \in 1 .. 3 : marked[i].used THEN NewPieces(d) ELSE marked,
                      score |-> sc + cleared.score]

\* ------------------------------------------------------------------------
\* plugin.rs GamePlugin

\* refresh: the preview computed for the board paint, [cells, valid]
preview ==
  IF dragging.shape # None /\ dragging.hover_cell # NoCoord
  THEN LET r == kk_can_place(board, pieces, dragging.shape, dragging.hover_cell)
       IN IF r.some
          THEN [cells |-> r.cells,
                valid |-> ~\E k \in 1 .. Len(r.cells) : cell_filled(board, r.cells[k])]
          ELSE [cells |-> << >>, valid |-> FALSE]
  ELSE [cells |-> << >>, valid |-> FALSE]

\* a MouseDown handler that starts the drag on a used piece as well
MouseDownAnyPiece(piece_idx) ==
  /\ ui = "drag"
  /\ dragging' = DragState(piece_idx, NoCoord)
  /\ last' = Handled("MouseDown")
  /\ UNCHANGED << ui, board, score, available_pieces, selected_piece, pieces, snapshot, commits, cap, rng >>

\* on_ui_message, WidgetMessage::MouseDown (left) on piece widget piece_idx:
\* a drag starts only on a piece that is not used
MouseDown(piece_idx) ==
  /\ ui = "drag"
  /\ IF ~pieces[piece_idx + 1].used
     THEN dragging' = DragState(piece_idx, NoCoord)
     ELSE UNCHANGED dragging
  /\ last' = Handled("MouseDown")
  /\ UNCHANGED << ui, board, score, available_pieces, selected_piece, pieces, snapshot, commits, cap, rng >>

\* on_ui_message, WidgetMessage::MouseMove: only the dragged widget moves
MouseMove ==
  /\ ui = "drag"
  /\ last' = Handled("MouseMove")
  /\ UNCHANGED << ui, board, score, available_pieces, selected_piece, pieces, dragging, snapshot, commits, cap, rng >>

\* on_ui_message, WidgetMessage::MouseEnter on board cell widget cell_idx
MouseEnter(cell_idx) ==
  /\ ui = "drag"
  /\ IF dragging.shape # None
     THEN dragging' = [dragging EXCEPT !.hover_cell = from_index(cell_idx)]
     ELSE UNCHANGED dragging
  /\ last' = HandledAt("MouseEnter", cell_idx)
  /\ UNCHANGED << ui, board, score, available_pieces, selected_piece, pieces, snapshot, commits, cap, rng >>

\* a MouseLeave handler that clears the hover cell whatever cell was left
MouseLeaveAnyCell(cell_idx) ==
  /\ ui = "drag"
  /\ IF dragging.shape # None
     THEN dragging' = [dragging EXCEPT !.hover_cell = NoCoord]
     ELSE UNCHANGED dragging
  /\ last' = HandledAt("MouseLeave", cell_idx)
  /\ UNCHANGED << ui, board, score, available_pieces, selected_piece, pieces, snapshot, commits, cap, rng >>

\* on_ui_message, WidgetMessage::MouseLeave on board cell widget cell_idx
MouseLeave(cell_idx) ==
  /\ ui = "drag"
  /\ IF dragging.shape # None /\ dragging.hover_cell = from_index(cell_idx)
     THEN dragging' = [dragging EXCEPT !.hover_cell = NoCoord]
     ELSE UNCHANGED dragging
  /\ last' = HandledAt("MouseLeave", cell_idx)
  /\ UNCHANGED << ui, board, score, available_pieces, selected_piece, pieces, snapshot, commits, cap, rng >>

\* a MouseUp handler that borrows self.dragging instead of taking it and
\* drops the drag only when the piece was placed
MouseUpKeepsRefusedDrag ==
  /\ ui = "drag"
  /\ IF dragging.shape = None
     THEN /\ last' = Handled("MouseUp")
          /\ UNCHANGED << board, score, pieces, dragging, snapshot, commits >>
     ELSE IF dragging.hover_cell = NoCoord
          THEN /\ last' = Handled("MouseUp")
               /\ UNCHANGED << board, score, pieces, dragging, snapshot, commits >>
          ELSE \E d \in rng :
                 LET r == place_shape(board, pieces, score, dragging.shape, dragging.hover_cell, d)
                 IN IF r.ok
                    THEN /\ commits < cap
                         /\ dragging' = NoDrag
                         /\ board' = r.board
                         /\ score' = r.score
                         /\ pieces' = r.pieces
                         /\ snapshot' = r.snapshot
                         /\ last' = Placed("MouseUp", dragging.shape, to_index(dragging.hover_cell))
                         /\ commits' = commits + 1
                    ELSE /\ last' = Handled("MouseUp")
                         /\ UNCHANGED << board, score, pieces, dragging, snapshot, commits >>
  /\ UNCHANGED << ui, available_pieces, selected_piece, cap, rng >>

\* on_ui_message, WidgetMessage::MouseUp (left): self.dragging.take(), then
\* place_shape at the hover cell when there is one
MouseUp ==
  /\ ui = "drag"
  /\ IF dragging.shape = None
     THEN /\ last' = Handled("MouseUp")
          /\ UNCHANGED << board, score, pieces, dragging, snapshot, commits, cap, rng >>
     ELSE /\ dragging' = NoDrag
          /\ IF dragging.hover_cell = NoCoord
             THEN /\ last' = Handled("MouseUp")
                  /\ UNCHANGED << board, score, pieces, snapshot, commits, cap, rng >>
             ELSE \E d \in rng :
                    LET r == place_shape(board, pieces, score, dragging.shape, dragging.hover_cell, d)
                    IN IF r.ok
                       THEN /\ commits < cap
                            /\ board' = r.board
                            /\ score' = r.score
                            /\ pieces' = r.pieces
                            /\ snapshot' = r.snapshot
                            /\ last' = Placed("MouseUp", dragging.shape, to_index(dragging.hover_cell))
                            /\ commits' = commits + 1
                       ELSE /\ last' = Handled("MouseUp")
                            /\ UNCHANGED << board, score, pieces, snapshot, commits, cap, rng >>
  /\ UNCHANGED << ui, available_pieces, selected_piece, cap, rng >>

NextDrag ==
  \/ \E i \in 0 .. 2 : MouseDown(i)
  \/ MouseMove
  \/ \E c \in TargetCells : MouseEnter(c)
  \/ \E c \in TargetCells : MouseLeave(c)
  \/ MouseUp

Next == NextClick \/ NextDrag

\* both plugins, each run followed for MaxCommits accepted placements
InitMain == rng = Draws /\ Init /\ cap = MaxCommits
Spec == InitMain /\ [][Next]_vars

\* the click-driven plugin alone, followed for DeepCommits accepted placements
InitDeep == rng = Draws /\ InitClick /\ cap = DeepCommits
SpecDeep == InitDeep /\ [][NextClick]_vars

\* the click-driven plugin with clicks on the cells of row 0 and a random
\* source that yields single blocks, followed for RowCommits accepted placements
NextRow ==
  \/ \E i \in 0 .. 2 : ClickPiece(i)
  \/ \E c \in RowCells : ClickCell(c)
InitRow == rng = SingleDraws /\ InitClick /\ cap = RowCommits
SpecRow == InitRow /\ [][NextRow]_vars

\* the click-driven plugin with clicks on the packing anchors and a random
\* source that yields big L pieces, followed for PackCommits accepted placements
NextPack ==
  \/ \E i \in 0 .. 2 : ClickPiece(i)
  \/ \E c \in PackCells : ClickCell(c)
InitPack == rng = BigLDraws /\ InitClick /\ cap = PackCommits
SpecPack == InitPack /\ [][NextPack]_vars

\* both plugins, followed for ShallowCommits accepted placements
InitShallow == rng = Draws /\ Init /\ cap = ShallowCommits
SpecShallow == InitShallow /\ [][Next]_vars

\* ------------------------------------------------------------------------
\* Vocabulary of the properties (stated on cells, not on the loops)

\* the cells <<x, y>> a shape covers when its origin is put on <<ax, ay>>
Footprint(blocks, ax, ay) == { << ax + blocks[k][1], ay + blocks[k][2] >> : k \in 1 .. Len(blocks) }

FilledCells(b) == { i \in Cells : b[i] }

\* every cell of the footprint is on the board and unfilled
Fits(b, blocks, ax, ay) ==
  \A k \in 1 .. Len(blocks) :
    /\ ax + blocks[k][1] \in Coords
    /\ ay + blocks[k][2] \in Coords
    /\ (ay + blocks[k][2]) * GRID_SIZE + (ax + blocks[k][1]) \notin FilledCells(b)

FootprintCells(blocks, ax, ay) == { p[2] * GRID_SIZE + p[1] : p \in Footprint(blocks, ax, ay) }

RowFull(b, y) == \A x \in Coords : b[y * GRID_SIZE + x]
ColFull(b, x) == \A y \in Coords : b[y * GRID_SIZE + x]
RowEmpty(b, y) == \A x \in Coords : ~b[y * GRID_SIZE + x]
ColEmpty(b, x) == \A y \in Coords : ~b[y * GRID_SIZE + x]

\* the shapes in the queue, and the slots marked used (GameState keeps no
\* used flag: all of its three pieces stay selectable)
QueueShapes == IF ui = "click" THEN available_pieces ELSE [i \in 1 .. 3 |-> pieces[i].shape]
UsedSlots == IF ui = "click" THEN {} ELSE { i \in 0 .. 2 : pieces[i + 1].used }

\* the step was a commit attempt / an accepted commit
CommitAttempt == last'.op \in {"ClickCell", "MouseUp"} /\ last' # last
Accepted == commits' = commits + 1

\* the board is fresh: no handler ran since it was created or last changed
FreshBoard == last.op = "init" \/ last.placed

\* ------------------------------------------------------------------------
\* C1: for every catalog shape and every anchor on the board, can_place is
\* positive exactly when every translated cell is on the board and unfilled
\* (so the horizontal 3-bar at anchor (6,0) is rejected on any board), and
\* the drag preview of a positive result is exactly the translated cells,
\* none of them filled.  Board-wide quantification is evaluated in the
\* states where the board is fresh; every board of a run occurs in one.
C1_CanPlaceIffFits ==
  /\ FreshBoard =>
       \A s \in PieceIds : \A c \in Cells :
         can_place(board, Shape(s), c % GRID_SIZE, c \div GRID_SIZE)
           <=> Fits(board, Shape(s), c % GRID_SIZE, c \div GRID_SIZE)
  /\ ~can_place(board, Shape(3), 6, 0)
  /\ (ui = "drag" /\ dragging.shape # None /\ dragging.hover_cell # NoCoord) =>
       LET blocks == pieces[dragging.shape + 1].shape
           h == dragging.hover_cell
       IN IF Fits(board, blocks, h.column, h.row)
          THEN /\ preview.valid
               /\ { to_index(preview.cells[k]) : k \in 1 .. Len(preview.cells) }
                    = FootprintCells(blocks, h.column, h.row)
               /\ \A k \in 1 .. Len(preview.cells) : ~board[to_index(preview.cells[k])]
          ELSE preview.cells = << >> /\ ~preview.valid

\* C1 witness: a board with filled cells on which some shape is refused for
\* overlap at an anchor where it lies on the board, another is refused for
\* leaving the board, and a third fits
C1_Witness ==
  /\ FreshBoard
  /\ board[idx(0, 0)]
  /\ ~can_place(board, Shape(1), 0, 0) /\ \A p \in Footprint(Shape(1), 0, 0) : in_bounds(p[1], p[2])
  /\ ~can_place(board, Shape(3), 6, 0)
  /\ can_place(board, Shape(5), 6, 6)

\* C2: a commit attempt either changes neither board, score nor queue, or
\* it is accepted for a shape that fits at the anchor, and then the
\* placement step has written every cell of the footprint
C2_AllOrNothing ==
  [][CommitAttempt =>
       \/ /\ ~last'.placed
          /\ UNCHANGED << board, score, available_pieces, pieces, commits >>
       \/ /\ last'.placed
          /\ Accepted
          /\ LET blocks == QueueShapes[last'.slot + 1]
                 x == last'.cell % GRID_SIZE
                 y == last'.cell \div GRID_SIZE
             IN /\ last'.slot \in 0 .. 2 /\ last'.slot \notin UsedSlots
                /\ Fits(board, blocks, x, y)
                /\ FilledCells(snapshot') = FilledCells(board) \cup FootprintCells(blocks, x, y)
  ]_vars

\* C2 witness: a board click with a piece selected was refused on a board
\* that already holds cells (the shape did not fit at the anchor)
C2_Witness ==
  /\ last.op = "ClickCell" /\ ~last.placed
  /\ selected_piece # None
  /\ FilledCells(board) # {}

\* the lines complete in the board b
FullRows(b) == { y \in Coords : RowFull(b, y) }
FullCols(b) == { x \in Coords : ColFull(b, x) }

\* the lines a commit cleared: complete in the snapshot, empty afterwards
LinesCleared(snap, b) ==
  Cardinality({ y \in FullRows(snap) : RowEmpty(b, y) })
    + Cardinality({ x \in FullCols(snap) : ColEmpty(b, x) })

\* C3: right after an accepted commit, every row and every column that was
\* complete in the post-placement snapshot is cleared, a column that shares
\* a cell with a cleared row included
C3_AllCompleteLinesCleared ==
  last.placed =>
    /\ \A y \in FullRows(snapshot) : RowEmpty(board, y)
    /\ \A x \in FullCols(snapshot) : ColEmpty(board, x)

\* C4: an accepted commit adds GRID_SIZE times the number of rows plus the
\* number of columns complete in the snapshot, and leaves the cell where a
\* complete row meets a complete column empty
C4_ScoreDelta ==
  [][Accepted =>
       /\ score' = score + GRID_SIZE * (Cardinality(FullRows(snapshot')) + Cardinality(FullCols(snapshot')))
       /\ \A y \in FullRows(snapshot') : \A x \in FullCols(snapshot') : ~board'[y * GRID_SIZE + x]
  ]_vars

\* C5: right after an accepted commit, line clearing has filled no cell, and
\* every cell filled in the snapshot that lies on no complete row and on no
\* complete column of the snapshot is still filled
C5_OnlyCompleteLinesCleared ==
  last.placed =>
    \A i \in Cells :
      /\ board[i] => snapshot[i]
      /\ (snapshot[i] /\ ~RowFull(snapshot, i \div GRID_SIZE) /\ ~ColFull(snapshot, i % GRID_SIZE))
           => board[i]

\* C5 witness: a commit completed a line and cells off that line survive
C5_Witness ==
  /\ last.placed
  /\ FullRows(snapshot) \cup FullCols(snapshot) # {}
  /\ FilledCells(board) # {}
  /\ FilledCells(board) # FilledCells(snapshot)

\* C6: the score starts at 0; an accepted commit adds GRID_SIZE for every
\* line it cleared; every other step leaves the score alone (so the score is
\* the sum of these additions and never decreases)
C6_ScoreIsSumOfClears ==
  /\ score = 0
  /\ [][/\ score' >= score
        /\ IF Accepted
           THEN score' = score + GRID_SIZE * LinesCleared(snapshot', board')
           ELSE score' = score
     ]_vars

\* C6 witness: an earlier commit cleared a line and scored, and the last
\* accepted commit completed no line and added nothing
C6_Witness ==
  /\ last.placed
  /\ score = GRID_SIZE
  /\ FullRows(snapshot) \cup FullCols(snapshot) = {}

\* C7: the shapes in the queue change only by an accepted commit that places
\* the last unused slot; a commit that leaves a slot unused leaves the shape
\* of every slot as it was
C7_RefillOnlyWhenAllUsed ==
  [][QueueShapes' # QueueShapes =>
       /\ Accepted
       /\ UsedSlots \cup {last'.slot} = {0, 1, 2}
  ]_vars

C9_NoUsableSlotNoCommit ==
  /\ [](ui = "drag" =>
         /\ dragging.shape # None =>
              dragging.shape \in 0 .. 2 /\ dragging.shape \notin UsedSlots
         /\ \A slot \in -1 .. 3 : \A c \in TargetCells : \A d \in Draws :
              (slot \notin 0 .. 2 \/ slot \in UsedSlots) =>
                LET r == place_shape(board, pieces, score, slot, from_index(c), d)
                IN ~r.ok /\ r.board = board /\ r.pieces = pieces /\ r.score = score)
  /\ [][/\ (Accepted /\ ui = "drag") => last'.slot \notin UsedSlots
        /\ UsedSlots \subseteq UsedSlots' \/ (Accepted /\ UsedSlots' = {})
        /\ (last'.op = "ClickCell" /\ last' # last /\ selected_piece = None) =>
             UNCHANGED << board, score, available_pieces, selected_piece, commits >>
        /\ (Accepted /\ ui = "click") => (selected_piece # None /\ selected_piece' = None)
     ]_vars

\* C9 witness: a mouse down was handled while a slot is used and no drag
\* has started, so it was on a used piece
C9_Witness ==
  /\ ui = "drag"
  /\ last.op = "MouseDown"
  /\ dragging.shape = None
  /\ UsedSlots # {}

\* C10: a new session has an empty board, score 0 and 3 unused slots each
\* holding a shape of the catalog
C10_NewSession ==
  last.op = "init" =>
    /\ board = EmptyBoard
    /\ score = 0
    /\ commits = 0
    /\ Len(QueueShapes) = 3
    /\ UsedSlots = {}
    /\ \A i \in 1 .. 3 : \E s \in PieceIds : QueueShapes[i] = Shape(s)
    /\ selected_piece = None /\ dragging = NoDrag

\* C10 witness: the new session of the click-driven plugin, with the three
\* pieces GameState::new names
C10_Witness ==
  /\ last.op = "init"
  /\ ui = "click"
  /\ QueueShapes = << Shape(0), Shape(1), Shape(2) >>

\* the cells of row y
RowCellsOf(y) == { y * GRID_SIZE + x : x \in Coords }

\* C11: an accepted commit whose snapshot has no complete row and no
\* complete column adds 0 and clears no cell; one whose snapshot has exactly
\* one complete row and no complete column empties exactly the cells of that
\* row and adds GRID_SIZE; single blocks committed at (0,0), (1,0), ... on
\* the empty board add 0 for the first GRID_SIZE - 1 and GRID_SIZE for the
\* last, which leaves the board empty
C11_SingleRowClear ==
  [][Accepted =>
       /\ (FullRows(snapshot') = {} /\ FullCols(snapshot') = {}) =>
            (score' = score /\ board' = snapshot')
       /\ \A y \in Coords :
            (FullRows(snapshot') = {y} /\ FullCols(snapshot') = {}) =>
              /\ score' = score + GRID_SIZE
              /\ FilledCells(board') = FilledCells(snapshot') \ RowCellsOf(y)
              /\ Cardinality(FilledCells(snapshot')) - Cardinality(FilledCells(board')) = GRID_SIZE
       /\ \A k \in Coords :
            ( /\ FilledCells(board) = { idx(x, 0) : x \in 0 .. (k - 1) }
              /\ score = 0
              /\ QueueShapes[last'.slot + 1] = Shape(0)
              /\ last'.cell = idx(k, 0) ) =>
              IF k < GRID_SIZE - 1
              THEN score' = 0 /\ FilledCells(board') = { idx(x, 0) : x \in 0 .. k }
              ELSE score' = GRID_SIZE /\ board' = EmptyBoard
  ]_vars

\* C11 witness: the last cell of row 0 has just been committed as the
\* GRID_SIZE-th placement; the board is empty and the score is GRID_SIZE
C11_Witness ==
  /\ last.placed
  /\ last.cell = idx(GRID_SIZE - 1, 0)
  /\ commits = GRID_SIZE
  /\ FilledCells(snapshot) = RowCellsOf(0)
  /\ board = EmptyBoard
  /\ score = GRID_SIZE

\* the handlers that are not commit attempts
ReadOnlyOps == {"ClickPiece", "MouseDown", "MouseMove", "MouseEnter", "MouseLeave"}

\* C12: board, score and queue change only in an accepted commit: every
\* other step -- selecting a piece, starting a drag, mouse move, hover
\* enter and leave, a refused commit -- leaves all three as they were, and
\* none of these handlers is ever an accepted commit
C12_OnlyCommitMutates ==
  [][/\ ~Accepted => UNCHANGED << board, score, available_pieces, pieces >>
     /\ last'.op \in ReadOnlyOps =>
          /\ ~Accepted /\ ~last'.placed
          /\ UNCHANGED << board, score, available_pieces, pieces, snapshot >>
  ]_vars

\* C12 witness: a hover has just been recorded for an active drag over a
\* board that holds cells, with a slot of the queue used
C12_Witness ==
  /\ ui = "drag"
  /\ last.op = "MouseEnter"
  /\ dragging.hover_cell # NoCoord
  /\ FilledCells(board) # {}
  /\ UsedSlots # {}

\* a list of offsets is a well-formed shape: not empty, no offset twice, no
\* negative component, least column 0 and least row 0
WellFormedShape(blocks) ==
  /\ Len(blocks) >= 1
  /\ \A k \in 1 .. Len(blocks) : blocks[k][1] >= 0 /\ blocks[k][2] >= 0
  /\ \A j, k \in 1 .. Len(blocks) : blocks[j] = blocks[k] => j = k
  /\ \E k \in 1 .. Len(blocks) : blocks[k][1] = 0
  /\ \E k \in 1 .. Len(blocks) : blocks[k][2] = 0

\* C13: every shape of the catalog is a well-formed shape, and in every
\* state each of the 3 slots of the queue holds a shape of the catalog
C13_CatalogShapes ==
  /\ \A s \in PieceIds : WellFormedShape(Shape(s))
  /\ Len(QueueShapes) = 3
  /\ \A i \in 1 .. 3 :
       /\ \E s \in PieceIds : QueueShapes[i] = Shape(s)
       /\ WellFormedShape(QueueShapes[i])

\* C13 witness: the queue of the click-driven plugin has been regenerated
\* and holds other shapes than the ones the game started with
C13_Witness ==
  /\ ui = "click"
  /\ last.placed
  /\ QueueShapes # << Shape(0), Shape(1), Shape(2) >>
  /\ FilledCells(board) # {}

\* the offsets of a horizontal bar, a vertical bar and a solid square
HBar(n) == { << x, 0 >> : x \in 0 .. (n - 1) }
VBar(n) == { << 0, y >> : y \in 0 .. (n - 1) }
Square(n) == { << x, y >> : x \in 0 .. (n - 1), y \in 0 .. (n - 1) }

\* the catalog has a shape with exactly these offsets
HasShape(offsets) ==
  \E s \in PieceIds : { Shape(s)[k] : k \in 1 .. Len(Shape(s)) } = offsets

\* C14: the catalog has a 1-cell piece, the straight bars of 2, 3, 4 and 5
\* cells in both orientations, solid squares of at least two sizes (the
\* 1-cell piece counted as one), a shape of at least 6 cells, and the solid
\* 3x3 block; stated for the catalog the queue of the session is filled from
C14_CatalogVariety ==
  (\A i \in 1 .. 3 : \E s \in PieceIds : QueueShapes[i] = Shape(s)) =>
    /\ HasShape(Square(1))
    /\ \A n \in 2 .. 5 : HasShape(HBar(n)) /\ HasShape(VBar(n))
    /\ Cardinality({ n \in 1 .. GRID_SIZE : HasShape(Square(n)) }) >= 2
    /\ \E s \in PieceIds : Len(Shape(s)) >= 6
    /\ HasShape(Square(3))

\* C15: the placement step of an accepted commit fills exactly the cells of
\* the translated shape: the filled cells of the snapshot are the filled
\* cells of the board before plus those cells, which lie on the board and
\* were all unfilled, so the number of filled cells grows by the number of
\* blocks of the shape, and every other cell is as before
C15_PlacementFillsFootprint ==
  [][Accepted =>
       LET blocks == QueueShapes[last'.slot + 1]
           fp == FootprintCells(blocks, last'.cell % GRID_SIZE, last'.cell \div GRID_SIZE)
       IN /\ fp \subseteq Cells
          /\ fp \cap FilledCells(board) = {}
          /\ FilledCells(snapshot') = FilledCells(board) \cup fp
          /\ Cardinality(FilledCells(snapshot')) = Cardinality(FilledCells(board)) + Len(blocks)
          /\ \A i \in Cells \ fp : snapshot'[i] = board[i]
  ]_vars

\* C15 witness: a shape of at least 3 blocks has just been placed on a board
\* that held cells before
C15_Witness ==
  /\ last.placed
  /\ commits >= 2
  /\ \E s \in PieceIds :
       /\ Len(Shape(s)) >= 3
       /\ FootprintCells(Shape(s), last.cell % GRID_SIZE, last.cell \div GRID_SIZE) \subseteq FilledCells(snapshot)
       /\ FilledCells(snapshot) \ FootprintCells(Shape(s), last.cell % GRID_SIZE, last.cell \div GRID_SIZE) # {}

\* C16: in every state no row and no column of the board is complete, and
\* the board is not full
C16_NoCompleteLineAtRest ==
  /\ FullRows(board) = {}
  /\ FullCols(board) = {}
  /\ FilledCells(board) # Cells

\* C16 witness: the last placement completed a row and a column together
\* and cells of the snapshot are still on the board
C16_Witness ==
  /\ last.placed
  /\ FullRows(snapshot) # {}
  /\ FullCols(snapshot) # {}
  /\ FilledCells(board) # {}

\* C17: in every state some unused piece of the queue fits at some anchor
\* of the board, so an accepted commit is still possible
C17_SomePieceFits ==
  \E i \in (0 .. 2) \ UsedSlots : \E c \in Cells :
    Fits(board, QueueShapes[i + 1], c % GRID_SIZE, c \div GRID_SIZE)

\* the coordinates of the board
OnBoard == Coords \X Coords

\* C18: every coordinate at which can_place, place and line clearing index
\* the board has column and row in 0 .. GRID_SIZE - 1: for every catalog
\* shape and every anchor on the board can_place looks up on-board cells
\* only, and where it succeeds place writes on-board cells only; line
\* clearing scans the board's rows and columns; and every placement the
\* click handler makes is at an anchor on the board and writes on-board
\* cells only.  Board-wide quantification is evaluated in the states where
\* the board is fresh.
C18_AddressedCellsInBounds ==
  /\ [](FreshBoard =>
          \A s \in PieceIds : \A c \in Cells :
            /\ can_place_reads(board, Shape(s), c % GRID_SIZE, c \div GRID_SIZE, 1) \subseteq OnBoard
            /\ can_place(board, Shape(s), c % GRID_SIZE, c \div GRID_SIZE) =>
                 /\ place_writes(Shape(s), c % GRID_SIZE, c \div GRID_SIZE) \subseteq OnBoard
                 /\ \A p \in place_writes(Shape(s), c % GRID_SIZE, c \div GRID_SIZE) : idx(p[1], p[2]) \in Cells)
  /\ [](clear_addresses \subseteq OnBoard /\ \A p \in clear_addresses : idx(p[1], p[2]) \in Cells)
  /\ [][(Accepted /\ ui = "click") =>
          /\ last'.cell \in Cells
          /\ place_writes(QueueShapes[last'.slot + 1], last'.cell % GRID_SIZE, last'.cell \div GRID_SIZE)
               \subseteq OnBoard
       ]_vars

\* C18 witness: the click handler has placed a piece that reaches the last
\* column, and on the resulting board the horizontal 3-bar is refused at the
\* same anchor because it would leave the board
C18_Witness ==
  /\ ui = "click"
  /\ last.placed
  /\ last.cell = idx(6, 0)
  /\ snapshot[idx(GRID_SIZE - 1, 0)]
  /\ can_place_reads(board, Shape(3), 6, 1, 1) = { << 6, 1 >>, << 7, 1 >> }
  /\ ~can_place(board, Shape(3), 6, 1)

\* every way to fill the 3 slots from the catalog, repetitions included
AllQueues == { << Shape(a), Shape(b), Shape(c) >> : a, b, c \in PieceIds }

\* C19: the queue of a new session and the queue after a refill can be any
\* triple of catalog shapes: every shape in every slot, whatever the other
\* slots hold, the same shape in two or three slots included
C19_AnyShapeInAnySlot ==
  /\ (ui = "click" /\ last.op = "init") =>
       /\ available_pieces \in new_queues
       /\ new_queues = AllQueues
  /\ (ui = "click" /\ last.placed) =>
       /\ available_pieces \in generated_queues
       /\ generated_queues = AllQueues

\* C20: in the drag-driven plugin a drag begins only in the MouseDown
\* handler, on an unused slot and with no hover cell; a MouseUp during a
\* drag leaves no drag behind, whether or not the piece was placed, makes
\* at most one placement, of the dragged slot at the hover cell, and none
\* when there is no hover cell; a MouseUp without a drag changes nothing
C20_DragLifecycle ==
  [][ui = "drag" =>
       /\ (dragging'.shape # None /\ dragging'.shape # dragging.shape) =>
            /\ last'.op = "MouseDown"
            /\ dragging'.shape \in (0 .. 2) \ UsedSlots
            /\ dragging'.hover_cell = NoCoord
       /\ (last'.op = "MouseUp" /\ dragging.shape # None) =>
            /\ dragging' = NoDrag
            /\ commits' \in { commits, commits + 1 }
            /\ Accepted =>
                 /\ dragging.hover_cell # NoCoord
                 /\ last' = Placed("MouseUp", dragging.shape, to_index(dragging.hover_cell))
                 /\ dragging.shape \notin UsedSlots
                 /\ UsedSlots' \in { UsedSlots \cup {dragging.shape}, {} }
            /\ ~Accepted => UNCHANGED << board, score, pieces >>
            /\ dragging.hover_cell = NoCoord => ~Accepted
       /\ (last'.op = "MouseUp" /\ dragging.shape = None) =>
            UNCHANGED << board, score, pieces, dragging, commits, snapshot >>
  ]_vars

\* C20 witness: a MouseUp has just placed the dragged piece on a board that
\* held cells, and no drag is left
C20_Witness ==
  /\ ui = "drag"
  /\ last.op = "MouseUp"
  /\ last.placed
  /\ dragging = NoDrag
  /\ commits >= 2
  /\ UsedSlots # {}

\* C21: without a drag there is no hover cell, and hover events set none;
\* during a drag a MouseEnter makes the entered cell the hover cell, a
\* MouseLeave clears the hover cell when the cell left is the hover cell and
\* leaves it alone otherwise (so after Enter(A), Enter(B), Leave(A) the
\* hover cell is B); mouse moves leave the hover cell alone; and a MouseUp
\* that places does so at the hover cell
C21_HoverCell ==
  /\ [](dragging.shape = None => dragging.hover_cell = NoCoord)
  /\ [][ui = "drag" =>
          /\ (last'.op = "MouseEnter" /\ last' # last) =>
               IF dragging.shape # None
               THEN dragging' = DragState(dragging.shape, from_index(last'.cell))
               ELSE dragging' = NoDrag
          /\ (last'.op = "MouseLeave" /\ last' # last) =>
               IF dragging.shape # None /\ to_index(dragging.hover_cell) = last'.cell
               THEN dragging' = DragState(dragging.shape, NoCoord)
               ELSE dragging' = dragging
          /\ last'.op = "MouseMove" => dragging' = dragging
          /\ (last'.op = "MouseUp" /\ Accepted) =>
               /\ dragging.hover_cell # NoCoord
               /\ last'.cell = to_index(dragging.hover_cell)
               /\ FootprintCells(pieces[dragging.shape + 1].shape,
                                 dragging.hover_cell.column, dragging.hover_cell.row)
                    \subseteq FilledCells(snapshot')
       ]_vars

\* C21 witness: during a drag a cell other than the hover cell has just
\* been left and the hover cell is still set
C21_Witness ==
  /\ ui = "drag"
  /\ last.op = "MouseLeave"
  /\ dragging.shape # None
  /\ dragging.hover_cell # NoCoord
  /\ to_index(dragging.hover_cell) # last.cell

\* C22: idx maps the coordinates of the board one-to-one onto the cell
\* indices and (i mod GRID_SIZE, i div GRID_SIZE) is its inverse; the board
\* widget with index i sits at column i mod GRID_SIZE, row i div GRID_SIZE;
\* painting addresses for cell (x, y) the widget that sits at (x, y); a
\* hover on widget i sets the hover cell to the widget's position; and an
\* accepted board click on widget i fills the blocks of the shape counted
\* from the widget's position.  The part that does not depend on the
\* session is evaluated in the states of a new session.
C22_CellIndexBijection ==
  /\ [](last.op = "init" =>
        /\ \A x, y \in Coords : idx(x, y) \in Cells
        /\ \A x1, y1, x2, y2 \in Coords :
             idx(x1, y1) = idx(x2, y2) => (x1 = x2 /\ y1 = y2)
        /\ \A i \in Cells : \E x, y \in Coords : idx(x, y) = i
        /\ \A i \in Cells : idx(i % GRID_SIZE, i \div GRID_SIZE) = i
        /\ \A x, y \in Coords :
             idx(x, y) % GRID_SIZE = x /\ idx(x, y) \div GRID_SIZE = y
        /\ Len(board_cells) = GRID_SIZE * GRID_SIZE
        /\ \A i \in Cells : board_cells[i + 1] = << i % GRID_SIZE, i \div GRID_SIZE >>
        /\ \A x, y \in Coords :
             /\ board_cells[idx(x, y) + 1] = << x, y >>
             /\ board_cells[to_index(Coord_new(x, y)) + 1] = << x, y >>
        /\ Len(QueueShapes) = 3)
  /\ [][/\ (Accepted /\ ui = "click") =>
             LET w == board_cells[last'.cell + 1]
                 blocks == QueueShapes[last'.slot + 1]
             IN \A k \in 1 .. Len(blocks) :
                  snapshot'[(w[2] + blocks[k][2]) * GRID_SIZE + (w[1] + blocks[k][1])]
        /\ (ui = "drag" /\ last'.op = "MouseEnter" /\ last' # last /\ dragging.shape # None) =>
             LET w == board_cells[last'.cell + 1]
             IN dragging'.hover_cell = Coord_new(w[1], w[2])
     ]_vars

\* C22 witness: an accepted board click on the widget in column 0, row 3
\* has filled the cell in column 0, row 3 and not the one in column 3, row 0
C22_Witness ==
  /\ ui = "click"
  /\ last.placed
  /\ board_cells[last.cell + 1] = << 0, 3 >>
  /\ snapshot[3 * GRID_SIZE + 0]
  /\ ~snapshot[0 * GRID_SIZE + 3]

====
